---------------------------- MODULE Spec2Model ----------------------------
(***************************************************************************)
(* A model of the NanoQuant compression core:                              *)
(*   - UltraNanoQuantGenerator   (nanoquant_generator.py)                  *)
(*   - UltraAdvancedCompressionEngine (compression_engine.py)              *)
(*   - CompressionPipeline.process_model (compression_pipeline.py)         *)
(*   - UserManager (user_management.py) and the API's compression          *)
(*     endpoint (api/main.py)                                              *)
(*                                                                         *)
(* Weight tensors are symbolic terms: the weight of a layer is the         *)
(* sequence of operator applications that were stored into it, <<>> being  *)
(* the tensor as ingested.  Two equal terms denote equal tensors.  Ratios  *)
(* are integers: percent for ratio, rank_ratio and dropout, per-mille for  *)
(* the declared compression ratio.                                         *)
(*                                                                         *)
(* Spec is the compression run: generate_nanoquants, generate_custom_      *)
(* nanoquant or process_model on the toy model, with injected failures.    *)
(* DirectCalls is one direct call of a query of the generator or of a      *)
(* tensor operator of the engine on a small integer-valued tensor.         *)
(* Accounts is the credit accounts: calls on the API's UserManager and     *)
(* compressions run for a user, whose generation is taken by its outcome   *)
(* (it returns or raises, as Spec shows).                                  *)
(***************************************************************************)
EXTENDS Integers, Sequences, FiniteSets, TLC

\* Number of torch.nn.Linear layers of the ingested model (the toy model has 2).
NumLayers == 2
\* Number of operator, library or I/O failures injected in one behaviour.
MaxFaults == 1

\* Longest flattened weight tensor handed to a tensor operator directly.
MaxLen == 3
\* Largest magnitude of a weight in such a tensor.
MaxAbs == 2
\* Largest number of rows or columns of a weight matrix whose rank is computed.
MaxDim == 3
\* Number of calls made on the accounts in one behaviour.
MaxCalls == 2

Layers == 1..NumLayers

Get(d, k, default) == IF k \in DOMAIN d THEN d[k] ELSE default

-----------------------------------------------------------------------------
(* The level table, UltraNanoQuantGenerator.__init__.                      *)

Levels == <<"light", "medium", "heavy", "extreme", "ultra", "nano", "atomic">>

compression_levels ==
  [ light |->
      [ description |-> "50-70% size reduction with maximum quality preservation",
        quantization |-> [type |-> "8bit"],
        pruning |-> [type |-> "wanda", ratio |-> 15],
        lora |-> [r |-> 64, alpha |-> 32, dropout |-> 5] ],
    medium |->
      [ description |-> "70-85% size reduction with balanced compression/quality",
        quantization |-> [type |-> "8bit"],
        pruning |-> [type |-> "wanda", ratio |-> 30],
        lora |-> [r |-> 32, alpha |-> 32, dropout |-> 10] ],
    heavy |->
      [ description |-> "85-92% size reduction with significant compression",
        quantization |-> [type |-> "4bit"],
        pruning |-> [type |-> "sparsegpt", ratio |-> 50],
        decomposition |-> [type |-> "low_rank", rank_ratio |-> 60],
        lora |-> [r |-> 16, alpha |-> 16, dropout |-> 15] ],
    extreme |->
      [ description |-> "92-96% size reduction with maximum compression",
        quantization |-> [type |-> "quip"],
        pruning |-> [type |-> "sparsegpt", ratio |-> 70],
        decomposition |-> [type |-> "calr", rank_ratio |-> 40],
        lora |-> [r |-> 8, alpha |-> 8, dropout |-> 20] ],
    ultra |->
      [ description |-> "96-98% size reduction using advanced techniques",
        quantization |-> [type |-> "aqlm"],
        pruning |-> [type |-> "sparsegpt", ratio |-> 85],
        decomposition |-> [type |-> "calr", rank_ratio |-> 25],
        preserve_super_weights |-> TRUE,
        lora |-> [r |-> 4, alpha |-> 4, dropout |-> 25] ],
    nano |->
      [ description |-> "98-99% size reduction using ultra-advanced techniques",
        quantization |-> [type |-> "ptq1_61"],
        pruning |-> [type |-> "sparsegpt", ratio |-> 92],
        decomposition |-> [type |-> "calr", rank_ratio |-> 15],
        preserve_super_weights |-> TRUE,
        lora |-> [r |-> 2, alpha |-> 2, dropout |-> 30] ],
    atomic |->
      [ description |-> "Maximum compression using all ultra-advanced techniques",
        quantization |-> [type |-> "ultrasketch"],
        pruning |-> [type |-> "sparsegpt", ratio |-> 95],
        decomposition |-> [type |-> "calr", rank_ratio |-> 10],
        preserve_super_weights |-> TRUE,
        lora |-> [r |-> 1, alpha |-> 1, dropout |-> 35] ] ]

\* A table of ratios in which nano is declared above ultra.
ratios_nano_above_ultra ==
  [ light |-> 300, medium |-> 150, heavy |-> 80, extreme |-> 40,
    ultra |-> 20, nano |-> 30, atomic |-> 5 ]

\* _estimate_compression_ratio: the declared ratio in per-mille, 0.1 for any
\* other name.
ratios ==
  [ light |-> 300, medium |-> 150, heavy |-> 80, extreme |-> 40,
    ultra |-> 20, nano |-> 10, atomic |-> 5 ]

\* A lookup that misses every key and always yields the default.
_estimate_compression_ratio_default(level_name) == 100

_estimate_compression_ratio(level_name) == Get(ratios, level_name, 100)


-----------------------------------------------------------------------------
(* The strategy registries, UltraAdvancedCompressionEngine.__init__.       *)

quantization_strategies ==
  ("4bit" :> "_apply_4bit_quantization") @@
  ("8bit" :> "_apply_8bit_quantization") @@
  ("mixed" :> "_apply_mixed_precision_quantization") @@
  ("quip" :> "_apply_quip_quantization") @@
  ("aqlm" :> "_apply_aqlm_quantization") @@
  ("onebit" :> "_apply_onebit_quantization") @@
  ("ptq1_61" :> "_apply_ptq1_61_quantization") @@
  ("ultrasketch" :> "_apply_ultrasketch_quantization")

pruning_strategies ==
  ("unstructured" :> "_apply_unstructured_pruning") @@
  ("structured" :> "_apply_structured_pruning") @@
  ("magnitude" :> "_apply_magnitude_pruning") @@
  ("sparsegpt" :> "_apply_sparsegpt_pruning") @@
  ("wanda" :> "_apply_wanda_pruning")

decomposition_strategies ==
  ("low_rank" :> "_apply_low_rank_decomposition") @@
  ("calr" :> "_apply_calr_decomposition")

\* A fallback to the wrong strategy.
_apply_quantization_fallback_4bit(quant_config) ==
  LET quant_type == Get(quant_config, "type", "8bit")
  IN  IF quant_type \in DOMAIN quantization_strategies
      THEN [method |-> quantization_strategies[quant_type], warned |-> FALSE]
      ELSE [method |-> "_apply_4bit_quantization", warned |-> TRUE]

\* A fallback that forgets its warning.
_apply_quantization_silent(quant_config) ==
  LET quant_type == Get(quant_config, "type", "8bit")
  IN  IF quant_type \in DOMAIN quantization_strategies
      THEN [method |-> quantization_strategies[quant_type], warned |-> FALSE]
      ELSE [method |-> "_apply_8bit_quantization", warned |-> FALSE]

\* _apply_quantization: the method the key resolves to, and whether the
\* fallback warning is logged on the way.
_apply_quantization(quant_config) ==
  LET quant_type == Get(quant_config, "type", "8bit")
  IN  IF quant_type \in DOMAIN quantization_strategies
      THEN [method |-> quantization_strategies[quant_type], warned |-> FALSE]
      ELSE [method |-> "_apply_8bit_quantization", warned |-> TRUE]

_apply_pruning(prune_config) ==
  LET prune_type == Get(prune_config, "type", "unstructured")
  IN  IF prune_type \in DOMAIN pruning_strategies
      THEN [method |-> pruning_strategies[prune_type], warned |-> FALSE]
      ELSE [method |-> "_apply_unstructured_pruning", warned |-> TRUE]

_apply_decomposition(decompose_config) ==
  LET decompose_type == Get(decompose_config, "type", "low_rank")
  IN  IF decompose_type \in DOMAIN decomposition_strategies
      THEN [method |-> decomposition_strategies[decompose_type], warned |-> FALSE]
      ELSE [method |-> "_apply_low_rank_decomposition", warned |-> TRUE]

\* Quantization methods that return the model untouched.
NoOpQuantization ==
  { "_apply_4bit_quantization", "_apply_mixed_precision_quantization",
    "_apply_quip_quantization", "_apply_aqlm_quantization" }

\* Quantization methods that loop over the nn.Linear layers and store a new
\* tensor into module.weight.data, with no try/except around the layer body.
InPlaceQuantization ==
  { "_apply_onebit_quantization", "_apply_ptq1_61_quantization",
    "_apply_ultrasketch_quantization" }

\* The operator application a method stores into a layer's weight.
Tag(op, arg) == [op |-> op, arg |-> arg]

QuantTag(method) ==
  CASE method = "_apply_onebit_quantization" -> Tag("onebit", 0)
    [] method = "_apply_ptq1_61_quantization" -> Tag("ptq1_61", 0)
    [] method = "_apply_ultrasketch_quantization" -> Tag("ultrasketch", 0)
    [] OTHER -> Tag("qint8", 0)

\* _apply_structured_pruning and _apply_magnitude_pruning delegate to
\* _apply_unstructured_pruning (prune.l1_unstructured); ratio defaults to 0.3.
PruneTag(method, prune_config) ==
  CASE method = "_apply_wanda_pruning" -> Tag("wanda", Get(prune_config, "ratio", 30))
    [] method = "_apply_sparsegpt_pruning" -> Tag("sparsegpt", Get(prune_config, "ratio", 30))
    [] OTHER -> Tag("l1_unstructured", Get(prune_config, "ratio", 30))

CalrTag(decompose_config) == Tag("calr", Get(decompose_config, "rank_ratio", 50))

\* The fallback of _apply_calr_decomposition reuses the local `rank`.
FallbackTag(rank) == Tag("svd_lowrank", rank)

-----------------------------------------------------------------------------
(* Shapes.  A weight matrix has shape <<out_features, in_features>>; the   *)
(* shape of a stored tensor is computed through the tensor expressions     *)
(* that produced it.                                                       *)

\* The toy model: a 2x2 layer, a 1x2 layer; further layers are 2x1.
LayerShape(l) == IF l = 1 THEN <<2, 2>> ELSE IF l = 2 THEN <<1, 2>> ELSE <<2, 1>>

\* The shape of an expression torch refuses to evaluate.
ShapeError == <<0, 0>>

Least(a, b) == IF a < b THEN a ELSE b

\* A product that takes its column count from the wrong factor.
MatMul_rows_of_both(a, b) ==
  IF a = ShapeError \/ b = ShapeError \/ a[2] # b[1] THEN ShapeError ELSE <<a[1], b[1]>>

\* a @ b.
MatMul(a, b) ==
  IF a = ShapeError \/ b = ShapeError \/ a[2] # b[1] THEN ShapeError ELSE <<a[1], b[2]>>

\* a + b, a - b and torch.where over tensors of one shape.
Elementwise(a, b) == IF a = b THEN a ELSE ShapeError

\* weights.flatten() ... .reshape(original_shape): the element count of the
\* flat tensor has to fit the shape.
Flatten(s) == s[1] * s[2]
Reshape(numel, original_shape) ==
  IF numel = original_shape[1] * original_shape[2] THEN original_shape ELSE ShapeError

\* rank = max(1, int(rank_ratio * min(U.shape[1], Vh.shape[0]))).
CalrRank(s, rank_ratio) ==
  LET r == (rank_ratio * Least(s[1], s[2])) \div 100
  IN  IF r < 1 THEN 1 ELSE r

\* W_corrected = U_low @ diag(S_low) @ Vh_low + 0.1 * (W - W_approx).
CalrShape(s, rank_ratio) ==
  LET rank == CalrRank(s, rank_ratio)
      W_approx == MatMul(MatMul(<<s[1], rank>>, <<rank, rank>>), <<rank, s[2]>>)
      error == Elementwise(s, W_approx)
  IN  Elementwise(W_approx, error)

\* U, S, V = torch.svd_lowrank(W, q=rank) has at most min(q, m, n) columns,
\* and the handler multiplies U @ diag(S) by V itself, not by its transpose.
FallbackShape(s, rank) ==
  LET q == Least(rank, Least(s[1], s[2]))
  IN  MatMul(MatMul(<<s[1], q>>, <<q, q>>), <<s[2], q>>)

\* The shape of the tensor one stored operator application leaves.
ShapeAfter(tag, s) ==
  CASE tag.op = "onebit" -> Elementwise(Elementwise(s, s), Elementwise(s, s))
    [] tag.op \in {"ptq1_61", "ultrasketch"} -> Reshape(Flatten(s), s)
    [] tag.op = "calr" -> CalrShape(s, tag.arg)
    [] tag.op = "svd_lowrank" -> FallbackShape(s, tag.arg)
    [] OTHER -> Elementwise(s, s)

RECURSIVE ShapeOf(_, _)
ShapeOf(s, w) == IF w = <<>> THEN s ELSE ShapeOf(ShapeAfter(w[1], s), Tail(w))

\* The shape of layer l of a model whose weights are w.
WeightShape(w, l) == ShapeOf(LayerShape(l), w[l])

-----------------------------------------------------------------------------
(* Ad hoc recipes handed to generate_custom_nanoquant.                     *)

QuantOptions ==
  { [type |-> "8bit"], [type |-> "4bit"], [type |-> "onebit"],
    [type |-> "foo"], [bits |-> 8] }
PruneOptions ==
  { [type |-> "wanda", ratio |-> 30], [type |-> "bar", ratio |-> 30],
    [ratio |-> 30] }
DecompOptions ==
  { [type |-> "calr", rank_ratio |-> 50], [type |-> "baz", rank_ratio |-> 50] }
LoraOptions == { [r |-> 8, alpha |-> 32, dropout |-> 10] }

Optional(key, values) == { [name |-> "custom"] } \cup { key :> v : v \in values }

CustomRecipes ==
  { q @@ p @@ d @@ l @@ s :
      q \in Optional("quantization", QuantOptions),
      p \in Optional("pruning", PruneOptions),
      d \in Optional("decomposition", DecompOptions),
      l \in Optional("lora", LoraOptions),
      s \in Optional("preserve_super_weights", BOOLEAN) }

-----------------------------------------------------------------------------
VARIABLES
  ingested,   \* the object model_artifacts["model"]: [w, linear, peft, live]
  copy,       \* the object quantize_dynamic returned in the running call
  eng,        \* the running compress_model call on a fresh engine
  gen,        \* the running generate_nanoquants / generate_custom_nanoquant
  pm,         \* the running CompressionPipeline.process_model
  fs,         \* the artifact directories on disk
  faults,     \* failures injected so far
  self_compression_levels,  \* the generator's table, self.compression_levels
  ret,        \* the last call made directly: a query, an operator, an accounts call
  db,         \* the file ./nanoquant_users.json
  um,         \* self.users of the module-level UserManager of api/main.py
  run,        \* the running process_model / process_custom_model with a user_id
  expired,    \* the coupons whose expires_at lies before datetime.now()
  ncalls      \* calls made on the accounts so far

vars == <<ingested, copy, eng, gen, pm, fs, faults, self_compression_levels, ret,
          db, um, run, expired, ncalls>>

\* What the compression run leaves alone, and what the direct calls do.
queries == <<self_compression_levels, ret>>
core == <<ingested, copy, eng, gen, pm, fs, faults>>
accounts == <<db, um, run, expired, ncalls>>

OriginalWeights == [l \in Layers |-> <<>>]

NoObject == [w |-> OriginalWeights, linear |-> FALSE, peft |-> FALSE, live |-> FALSE]
NoConfig == [name |-> "none"]
NoEngine ==
  [ pc |-> "none", config |-> NoConfig, cur |-> "ingested", ran |-> <<>>,
    log |-> <<>>, masks |-> {}, has_masks |-> FALSE, handed |-> OriginalWeights,
    raised_in |-> "none", before |-> OriginalWeights, layer_errors |-> {},
    methods |-> <<>> ]
NoCall == [op |-> "none", arg |-> <<>>, result |-> <<>>, raised |-> "none"]
NoPath == [exists |-> FALSE, model |-> "none", tokenizer |-> FALSE]
\* f"{model_id.replace('/', '_')}_{level_name}", joined to output_dir.
ModelName(level_name) == <<"toy", level_name>>
Paths == { ModelName(Levels[i]) : i \in 1..Len(Levels) } \cup { ModelName("custom") }

\* _load_users when the file does not exist: {"users": {}, "coupons": {}}.
EmptyStore == [users |-> [x \in {} |-> 0], coupons |-> [x \in {} |-> 0]]

NoRun ==
  [ pc |-> "idle", via |-> "none", user_id |-> "none", level |-> "none",
    custom |-> FALSE, um |-> EmptyStore, loaded |-> EmptyStore, charged |-> 0 ]

InitRun ==
  /\ ingested = [w |-> OriginalWeights, linear |-> TRUE, peft |-> FALSE, live |-> TRUE]
  /\ copy = NoObject
  /\ eng = NoEngine
  /\ gen = [ pc |-> "idle", op |-> "none", i |-> 0, config |-> NoConfig,
             generated |-> <<>>, calls |-> <<>> ]
  /\ pm = [pc |-> "idle", compression_level |-> "none", generated_models |-> <<>>,
           push_to_ollama |-> FALSE, ollama_available |-> FALSE,
           ollama_log |-> <<>>, ollama_tags |-> <<>>]
  /\ fs = [p \in Paths |-> NoPath]
  /\ faults = 0
  /\ self_compression_levels = compression_levels
  /\ ret = NoCall

Init ==
  /\ InitRun
  /\ db = EmptyStore
  /\ um = EmptyStore
  /\ run = NoRun
  /\ expired = {}
  /\ ncalls = 0

CanFail(n) == faults + n <= MaxFaults

\* The object the local variable `model` of compress_model refers to.
CurObj == IF eng.cur = "ingested" THEN ingested ELSE copy

StoreCur(obj) ==
  IF eng.cur = "ingested"
  THEN ingested' = obj /\ UNCHANGED copy
  ELSE copy' = obj /\ UNCHANGED ingested

\* An exception leaving compress_model: neither generate_nanoquants,
\* generate_custom_nanoquant nor process_model catches it.
Propagate ==
  /\ gen' = [gen EXCEPT !.pc = "raised"]
  /\ pm' = IF pm.pc = "generate" THEN [pm EXCEPT !.pc = "raised"] ELSE pm

-----------------------------------------------------------------------------
(* compress_model: five stages in program order.                           *)

\* Pruning moved ahead of quantization.
StageOrder_pruning_first ==
  <<"preserve_super_weights", "pruning", "quantization", "decomposition", "lora">>

StageOrder ==
  <<"preserve_super_weights", "quantization", "pruning", "decomposition", "lora">>

StageIndex(s) == CHOOSE i \in 1..Len(StageOrder) : StageOrder[i] = s

NextStage(s) ==
  IF StageIndex(s) = Len(StageOrder) THEN "return" ELSE StageOrder[StageIndex(s) + 1]

\* compression_config.get("preserve_super_weights", False), and
\* `key in compression_config` for the other four.
StageEnabled(config, s) ==
  IF s = "preserve_super_weights"
  THEN Get(config, s, FALSE) = TRUE
  ELSE s \in DOMAIN config

Entered(e, s) == [e EXCEPT !.ran = Append(@, s)]
Finished(e, s) == [e EXCEPT !.pc = NextStage(s)]
Raised(e, s) == [e EXCEPT !.pc = "raised", !.raised_in = s]

\* A stage whose key is absent: the `if` is false.
SkipStage ==
  /\ eng.pc \in { StageOrder[i] : i \in 1..Len(StageOrder) }
  /\ ~StageEnabled(eng.config, eng.pc)
  /\ eng' = Finished(eng, eng.pc)
  /\ UNCHANGED <<ingested, copy, gen, pm, fs, faults>>
  /\ UNCHANGED queries
  /\ UNCHANGED accounts


SubsetsUpTo(S, n) == { F \in SUBSET S : Cardinality(F) <= n }

\* The layers the `isinstance(module, torch.nn.Linear)` loops visit.
LinearLayers(obj) == IF obj.linear THEN Layers ELSE {}

\* A super-weight step that writes the weights it keeps back into the layer.
_identify_and_preserve_super_weights_rewrites(w) ==
  [l \in Layers |-> Append(w[l], Tag("super_weights", 999))]

\* The weights _identify_and_preserve_super_weights leaves in the model it
\* returns: the loop reads module.weight.data and assigns only to the masks.
_identify_and_preserve_super_weights(w) == w

\* Step 1, _identify_and_preserve_super_weights: torch.quantile runs per
\* layer outside any try; the masks are stored on the engine after the loop.
SuperWeights ==
  /\ eng.pc = "preserve_super_weights"
  /\ StageEnabled(eng.config, "preserve_super_weights")
  /\ \E k \in {0} \cup LinearLayers(CurObj) :
       IF k = 0
       THEN /\ eng' = Finished([Entered(eng, "preserve_super_weights") EXCEPT
                         !.masks = LinearLayers(CurObj), !.has_masks = TRUE,
                         !.before = CurObj.w, !.layer_errors = {}],
                       "preserve_super_weights")
            /\ StoreCur([CurObj EXCEPT !.w = _identify_and_preserve_super_weights(@)])
            /\ UNCHANGED <<gen, pm, faults>>
       ELSE /\ CanFail(1)
            /\ faults' = faults + 1
            /\ eng' = Raised([Entered(eng, "preserve_super_weights") EXCEPT
                         !.before = CurObj.w, !.layer_errors = {k}],
                       "preserve_super_weights")
            /\ Propagate
            /\ UNCHANGED <<ingested, copy>>
  /\ UNCHANGED fs
  /\ UNCHANGED queries
  /\ UNCHANGED accounts

\* A per-layer loop that stores into module.weight.data and has no
\* try/except: layer k throws (0: none does), the layers before k are
\* already rewritten.
InPlaceUntil(w, layers, tag, k) ==
  [l \in Layers |-> IF l \in layers /\ (k = 0 \/ l < k) THEN Append(w[l], tag) ELSE w[l]]

\* torch.quantization.quantize_dynamic(model, {Linear}, qint8) with the
\* default inplace=False: a converted deep copy whose Linear layers are
\* dynamic-quantized modules, no longer torch.nn.Linear.
QuantizedCopy(obj) ==
  [ w |-> [l \in Layers |-> Append(obj.w[l], QuantTag("_apply_8bit_quantization"))],
    linear |-> FALSE, peft |-> obj.peft, live |-> TRUE ]

\* Step 2, _apply_quantization and the method it resolves to.
Quantization ==
  /\ eng.pc = "quantization"
  /\ StageEnabled(eng.config, "quantization")
  /\ LET r == _apply_quantization(eng.config.quantization)
         e == [Entered(eng, "quantization") EXCEPT
                 !.log = IF r.warned THEN Append(@, "quantization_fallback") ELSE @,
                 !.methods = Append(@, <<"quantization", r.method>>),
                 !.before = CurObj.w, !.layer_errors = {}]
     IN  \/ /\ r.method \in NoOpQuantization
            /\ eng' = Finished(e, "quantization")
            /\ UNCHANGED <<ingested, copy, gen, pm, faults>>
         \/ /\ r.method = "_apply_8bit_quantization"
            /\ copy' = QuantizedCopy(CurObj)
            /\ eng' = Finished([e EXCEPT !.cur = "copy"], "quantization")
            /\ UNCHANGED <<ingested, gen, pm, faults>>
         \/ /\ r.method = "_apply_8bit_quantization"
            /\ CanFail(1)
            /\ faults' = faults + 1
            /\ eng' = Raised(e, "quantization")
            /\ Propagate
            /\ UNCHANGED <<ingested, copy>>
         \/ /\ r.method \in InPlaceQuantization
            /\ StoreCur([CurObj EXCEPT !.w =
                 InPlaceUntil(@, LinearLayers(CurObj), QuantTag(r.method), 0)])
            /\ eng' = Finished(e, "quantization")
            /\ UNCHANGED <<gen, pm, faults>>
         \/ /\ r.method \in InPlaceQuantization
            /\ CanFail(1)
            /\ \E k \in LinearLayers(CurObj) :
                 /\ StoreCur([CurObj EXCEPT !.w =
                      InPlaceUntil(@, LinearLayers(CurObj), QuantTag(r.method), k)])
                 /\ eng' = Raised([e EXCEPT !.layer_errors = {k}], "quantization")
            /\ faults' = faults + 1
            /\ Propagate
  /\ UNCHANGED fs
  /\ UNCHANGED queries
  /\ UNCHANGED accounts

\* A per-layer loop whose layer body is wrapped in try/except: the layers in
\* F throw and are logged, every other layer is rewritten.
PerLayerTry(w, layers, tag, F) ==
  [l \in Layers |-> IF l \in layers /\ l \notin F THEN Append(w[l], tag) ELSE w[l]]

\* Step 3, _apply_pruning and the method it resolves to.
Pruning ==
  /\ eng.pc = "pruning"
  /\ StageEnabled(eng.config, "pruning")
  /\ LET r == _apply_pruning(eng.config.pruning)
         e == [Entered(eng, "pruning") EXCEPT
                 !.log = IF r.warned THEN Append(@, "pruning_fallback") ELSE @,
                 !.methods = Append(@, <<"pruning", r.method>>),
                 !.before = CurObj.w]
     IN  \E F \in SubsetsUpTo(LinearLayers(CurObj), MaxFaults - faults) :
           /\ StoreCur([CurObj EXCEPT !.w =
                PerLayerTry(@, LinearLayers(CurObj), PruneTag(r.method, eng.config.pruning), F)])
           /\ eng' = Finished([e EXCEPT !.layer_errors = F], "pruning")
           /\ faults' = faults + Cardinality(F)
  /\ UNCHANGED <<gen, pm, fs>>
  /\ UNCHANGED queries
  /\ UNCHANGED accounts

\* _apply_calr_decomposition: torch.linalg.svd throws on the layers in F.  The
\* handler retries with torch.svd_lowrank(W, q=rank); `rank` is a local of the
\* method, bound only once an earlier layer got past its SVD, so the retry
\* can store a result only on the layers in G.
RankBound(l, F) == \E j \in Layers : j < l /\ j \notin F

\* The value `rank` holds when layer l fails: the one computed for the last
\* layer before l that got past its SVD.
RankLeft(w, l, F, decompose_config) ==
  LET j == CHOOSE j \in Layers :
             /\ j < l /\ j \notin F
             /\ \A k \in Layers : (k < l /\ k \notin F) => k <= j
  IN  CalrRank(WeightShape(w, j), Get(decompose_config, "rank_ratio", 50))

\* The failing layers on which the retry can get as far as its store: rank
\* is bound and U @ diag(S) @ V is a product torch can form.
CanRetry(w, F, decompose_config) ==
  { l \in F : /\ RankBound(l, F)
              /\ FallbackShape(WeightShape(w, l), RankLeft(w, l, F, decompose_config))
                   # ShapeError }

Calr(w, layers, decompose_config, F, G) ==
  [l \in Layers |->
     IF l \notin layers THEN w[l]
     ELSE IF l \notin F THEN Append(w[l], CalrTag(decompose_config))
     ELSE IF l \in G THEN Append(w[l], FallbackTag(RankLeft(w, l, F, decompose_config)))
     ELSE w[l]]

\* Step 4, _apply_decomposition and the method it resolves to.
Decomposition ==
  /\ eng.pc = "decomposition"
  /\ StageEnabled(eng.config, "decomposition")
  /\ LET r == _apply_decomposition(eng.config.decomposition)
         e == [Entered(eng, "decomposition") EXCEPT
                 !.log = IF r.warned THEN Append(@, "decomposition_fallback") ELSE @,
                 !.methods = Append(@, <<"decomposition", r.method>>),
                 !.before = CurObj.w, !.layer_errors = {}]
     IN  \/ /\ r.method = "_apply_low_rank_decomposition"
            /\ eng' = Finished(e, "decomposition")
            /\ UNCHANGED <<ingested, copy, faults>>
         \/ /\ r.method = "_apply_calr_decomposition"
            /\ \E F \in SubsetsUpTo(LinearLayers(CurObj), MaxFaults - faults) :
               \E G \in SUBSET CanRetry(CurObj.w, F, eng.config.decomposition) :
                 /\ StoreCur([CurObj EXCEPT !.w =
                      Calr(@, LinearLayers(CurObj), eng.config.decomposition, F, G)])
                 /\ eng' = Finished([e EXCEPT !.layer_errors = F], "decomposition")
                 /\ faults' = faults + Cardinality(F)
  /\ UNCHANGED <<gen, pm, fs>>
  /\ UNCHANGED queries
  /\ UNCHANGED accounts

\* Step 5, _apply_lora_finetuning: reading the config and building LoraConfig
\* happen before the try; only get_peft_model is inside it.
Lora ==
  /\ eng.pc = "lora"
  /\ StageEnabled(eng.config, "lora")
  /\ LET e == [Entered(eng, "lora") EXCEPT !.before = CurObj.w, !.layer_errors = {}]
     IN  \/ /\ StoreCur([CurObj EXCEPT !.peft = TRUE])
            /\ eng' = Finished(e, "lora")
            /\ UNCHANGED <<gen, pm, faults>>
         \/ /\ CanFail(1)
            /\ faults' = faults + 1
            /\ eng' = Finished([e EXCEPT !.log = Append(@, "lora_attach_error")], "lora")
            /\ UNCHANGED <<ingested, copy, gen, pm>>
         \/ /\ CanFail(1)
            /\ faults' = faults + 1
            /\ eng' = Raised(e, "lora")
            /\ Propagate
            /\ UNCHANGED <<ingested, copy>>
  /\ UNCHANGED fs
  /\ UNCHANGED queries
  /\ UNCHANGED accounts


\* A generator that goes on to the next level's compress_model while the
\* save of this level is still to come.
CompressReturn_next_level_before_save ==
  /\ eng.pc = "return"
  /\ eng' = [eng EXCEPT !.pc = "returned"]
  /\ gen' = [gen EXCEPT !.pc = IF gen.op = "all" /\ gen.i < Len(Levels) THEN "call" ELSE "save",
                        !.i = IF gen.op = "all" /\ gen.i < Len(Levels) THEN @ + 1 ELSE @]
  /\ UNCHANGED <<ingested, copy, pm, fs, faults>>
  /\ UNCHANGED queries
  /\ UNCHANGED accounts

\* An engine that writes the flag it looked up back into the recipe.
compression_config_after_setdefault(compression_config) ==
  IF "preserve_super_weights" \in DOMAIN compression_config THEN compression_config
  ELSE compression_config @@ [preserve_super_weights |-> FALSE]

\* The recipe dict as compress_model leaves it: the stages read it with
\* `in`, .get and [], and line 96 returns the same dict.
compression_config_after(compression_config) == compression_config

\* Lines 93-98: the result refers to the model the stages left behind.  In
\* generate_nanoquants the recipe handed in is the level table's own entry.
CompressReturn ==
  /\ eng.pc = "return"
  /\ eng' = [eng EXCEPT !.pc = "returned"]
  /\ gen' = [gen EXCEPT !.pc = "save"]
  /\ self_compression_levels' =
       IF gen.op = "all"
       THEN [self_compression_levels EXCEPT ![Levels[gen.i]] = compression_config_after(@)]
       ELSE self_compression_levels
  /\ UNCHANGED <<ingested, copy, pm, fs, faults, ret>>
  /\ UNCHANGED accounts

-----------------------------------------------------------------------------
(* UltraNanoQuantGenerator.                                                *)

StartGenerator(op, config) ==
  [ pc |-> "call", op |-> op, i |-> 1, config |-> config,
    generated |-> <<>>, calls |-> <<>> ]

\* generate_nanoquants called on the ingested model.
GenerateNanoquants ==
  /\ gen.pc = "idle" /\ pm.pc = "idle"
  /\ gen' = StartGenerator("all", NoConfig)
  /\ UNCHANGED <<ingested, copy, eng, pm, fs, faults>>
  /\ UNCHANGED queries
  /\ UNCHANGED accounts

\* generate_custom_nanoquant called with an ad hoc recipe.
GenerateCustomNanoquant(custom_config) ==
  /\ gen.pc = "idle" /\ pm.pc = "idle"
  /\ gen' = StartGenerator("custom", custom_config)
  /\ UNCHANGED <<ingested, copy, eng, pm, fs, faults>>
  /\ UNCHANGED queries
  /\ UNCHANGED accounts

\* The level and recipe of the running loop iteration.
LevelName == IF gen.op = "all" THEN Levels[gen.i] ELSE "custom"
\* A loop that hands every level the first level's recipe.
LevelConfig_first_level ==
  IF gen.op = "all" THEN self_compression_levels[Levels[1]] ELSE gen.config

LevelConfig ==
  IF gen.op = "all" THEN self_compression_levels[Levels[gen.i]] ELSE gen.config

\* Lines 82-86: a fresh engine, then compress_model(model_artifacts, config)
\* on the one model_artifacts the generator was given.
CompressEnter ==
  /\ gen.pc = "call"
  /\ eng' = [NoEngine EXCEPT !.pc = StageOrder[1], !.config = LevelConfig,
                             !.handed = ingested.w, !.before = ingested.w]
  /\ copy' = NoObject
  /\ gen' = [gen EXCEPT !.pc = "compress", !.calls = Append(@, LevelName)]
  /\ UNCHANGED <<ingested, pm, fs, faults>>
  /\ UNCHANGED queries
  /\ UNCHANGED accounts

\* The record appended per level, and the one generate_custom_nanoquant returns.
Artifact(level_name, config) ==
  [ name |-> ModelName(level_name),
    level |-> level_name,
    path |-> ModelName(level_name),
    description |-> config.description,
    compression_ratio |-> _estimate_compression_ratio(level_name),
    config |-> config ]

CustomArtifact(config) ==
  [ name |-> ModelName("custom"), path |-> ModelName("custom"), config |-> config ]

\* What _save_model leaves on disk: "pretrained" when save_pretrained worked,
\* "state_dict" when only the torch.save fallback did, "none" when both threw.
SaveOutcomes == {"pretrained", "state_dict", "none"}

SaveCost(model_saved, tokenizer_saved) ==
  (IF model_saved = "pretrained" THEN 0 ELSE 1) + (IF tokenizer_saved THEN 0 ELSE 1)

\* The fallback torch.save left outside its try.
_save_model_raises_on_fallback(model_saved, tokenizer_saved) == model_saved = "none"

\* Whether _save_model raises: its three saves are each inside a try.
_save_model_raises(model_saved, tokenizer_saved) == FALSE

\* Lines 88-102 (and 122-132): _save_model, then the artifact record.
SaveModel ==
  /\ gen.pc = "save"
  /\ \E model_saved \in SaveOutcomes, tokenizer_saved \in BOOLEAN :
       /\ CanFail(SaveCost(model_saved, tokenizer_saved))
       /\ faults' = faults + SaveCost(model_saved, tokenizer_saved)
       /\ fs' = [fs EXCEPT ![ModelName(LevelName)] =
                   [exists |-> TRUE, model |-> model_saved, tokenizer |-> tokenizer_saved]]
       /\ IF _save_model_raises(model_saved, tokenizer_saved)
          THEN Propagate
          ELSE /\ gen' = [gen EXCEPT
                  !.generated = IF gen.op = "all"
                                THEN Append(@, Artifact(LevelName, LevelConfig))
                                ELSE <<CustomArtifact(LevelConfig)>>,
                  !.i = IF gen.op = "all" /\ gen.i < Len(Levels) THEN @ + 1 ELSE @,
                  !.pc = IF gen.op = "all" /\ gen.i < Len(Levels) THEN "call" ELSE "done"]
               /\ UNCHANGED pm
  /\ UNCHANGED <<ingested, copy, eng>>
  /\ UNCHANGED queries
  /\ UNCHANGED accounts

\* os.makedirs(path, exist_ok=True) at the head of _save_model is outside
\* every try.
SaveModelMakedirsFails ==
  /\ gen.pc = "save"
  /\ CanFail(1)
  /\ faults' = faults + 1
  /\ Propagate
  /\ UNCHANGED <<ingested, copy, eng, fs>>
  /\ UNCHANGED queries
  /\ UNCHANGED accounts

-----------------------------------------------------------------------------
(* CompressionPipeline.process_model, without a user_id or knowledge data.  *)

\* The compression_level a caller passes: a level name, or any other string.
RequestedLevels == { Levels[i] : i \in 1..Len(Levels) } \cup {"bogus"}

\* Lines 43-51: ingest, then generate_nanoquants(model_artifacts, output_dir).
ProcessModel(compression_level) ==
  /\ pm.pc = "idle" /\ gen.pc = "idle"
  /\ pm' = [pm EXCEPT !.pc = "generate", !.compression_level = compression_level]
  /\ gen' = StartGenerator("all", NoConfig)
  /\ UNCHANGED <<ingested, copy, eng, fs, faults>>
  /\ UNCHANGED queries
  /\ UNCHANGED accounts

\* Lines 83-86 and 111-112: generate_nanoquants has returned; the loop of
\* step 4 runs when push_to_ollama is set and the ollama binary was found.
OllamaStep ==
  /\ pm.pc = "generate" /\ gen.pc = "done"
  /\ \E push_to_ollama \in BOOLEAN, ollama_available \in BOOLEAN :
       pm' = [pm EXCEPT !.pc = IF push_to_ollama /\ ollama_available
                                THEN "package" ELSE "packaged",
                        !.generated_models = gen.generated,
                        !.push_to_ollama = push_to_ollama,
                        !.ollama_available = ollama_available]
  /\ UNCHANGED <<ingested, copy, eng, gen, fs, faults>>
  /\ UNCHANGED queries
  /\ UNCHANGED accounts

\* tag = f"nanoquant_{model_name}:{level}".
OllamaTag(level) == <<"nanoquant_toy", level>>

\* What one level's package_for_ollama and push_to_ollama come to:
\* package_for_ollama re-raises what writing the Modelfile throws;
\* push_to_ollama returns False on a non-zero exit code, a timeout and any
\* other exception, True on exit code 0.
OllamaOutcomes == {"pushed", "push_false", "package_raised"}

\* A loop whose package_for_ollama call is outside the try.
ollama_outcome_raises_on_package(outcome) == outcome = "package_raised"

\* Whether an outcome leaves the loop: both calls are inside the try of
\* lines 99-110, whose handler only logs.
ollama_outcome_raises(outcome) == FALSE

\* Lines 87-110: one iteration of the packaging loop.
PackageForOllama ==
  /\ pm.pc = "package"
  /\ LET j == Len(pm.ollama_log) + 1
         level == pm.generated_models[j].level
     IN  \E outcome \in OllamaOutcomes :
           /\ CanFail(IF outcome = "pushed" THEN 0 ELSE 1)
           /\ faults' = faults + (IF outcome = "pushed" THEN 0 ELSE 1)
           /\ pm' = [pm EXCEPT
                 !.ollama_log = Append(@, outcome),
                 !.ollama_tags = IF outcome = "pushed" THEN Append(@, OllamaTag(level)) ELSE @,
                 !.pc = IF ollama_outcome_raises(outcome) THEN "raised"
                        ELSE IF j = Len(pm.generated_models) THEN "packaged"
                        ELSE "package"]
  /\ UNCHANGED <<ingested, copy, eng, gen, fs>>
  /\ UNCHANGED queries
  /\ UNCHANGED accounts

\* Lines 125-131.
ProcessModelReturn ==
  /\ pm.pc = "packaged"
  /\ pm' = [pm EXCEPT !.pc = "returned"]
  /\ UNCHANGED <<ingested, copy, eng, gen, fs, faults>>
  /\ UNCHANGED queries
  /\ UNCHANGED accounts

-----------------------------------------------------------------------------
(* The tensor operators of the engine, on flattened integer-valued         *)
(* tensors.  A result entry is the exact rational n/d, or NaN.             *)

Weights == (0 - MaxAbs)..MaxAbs
Tensors == UNION { [1..n -> Weights] : n \in 1..MaxLen }

Rat(n, d) == [n |-> n, d |-> d]
NaN == [n |-> 0, d |-> 0]

RECURSIVE Sum(_)
Sum(t) == IF t = <<>> THEN 0 ELSE t[1] + Sum(Tail(t))

Abs(x) == IF x < 0 THEN 0 - x ELSE x
Min(t) == CHOOSE x \in { t[i] : i \in 1..Len(t) } : \A i \in 1..Len(t) : x <= t[i]
Max(t) == CHOOSE x \in { t[i] : i \in 1..Len(t) } : \A i \in 1..Len(t) : x >= t[i]

\* t[t > 0].mean() if any, else torch.tensor(0.0).
MeanOrZero(t) == IF Len(t) > 0 THEN Rat(Sum(t), Len(t)) ELSE Rat(0, 1)

\* The two-level binarization of the onebit loop body: alpha and beta are
\* means over weights > 0 and weights < 0, torch.where tests weights >= 0.
onebit(weights) ==
  LET alpha == MeanOrZero(SelectSeq(weights, LAMBDA x : x > 0))
      beta == MeanOrZero(SelectSeq(weights, LAMBDA x : x < 0))
  IN  [i \in 1..Len(weights) |-> IF weights[i] >= 0 THEN alpha ELSE beta]

\* torch.round of a / b, b > 0: half to even.
Round(a, b) ==
  LET f == a \div b
      r == a % b
  IN  IF 2 * r < b THEN f
      ELSE IF 2 * r > b THEN f + 1
      ELSE IF f % 2 = 0 THEN f ELSE f + 1

Bits == {1, 2, 4, 8}

\* _quantize_tensor: normalise by (max_val - min_val), round to 2^bits - 1
\* steps, scale back.  With max_val = min_val the division is 0/0 (or x/0,
\* whose product with the zero range is NaN as well).
_quantize_tensor(tensor, bits, min_val, max_val) ==
  LET levels == 2 ^ bits
      range == max_val - min_val
  IN  [i \in 1..Len(tensor) |->
         IF range = 0 THEN NaN
         ELSE LET quantized == Round((tensor[i] - min_val) * (levels - 1), range)
              IN  Rat(quantized * range + min_val * (levels - 1), levels - 1)]

\* The k-th smallest entry, k in 1..Len(t).
Kth(t, k) ==
  CHOOSE v \in { t[i] : i \in 1..Len(t) } :
    /\ Cardinality({ i \in 1..Len(t) : t[i] < v }) < k
    /\ Cardinality({ i \in 1..Len(t) : t[i] <= v }) >= k

\* Five times torch.quantile(t, 0.8), linear interpolation between the
\* order statistics around position 0.8 * (n - 1).
Quantile80x5(t) ==
  LET n == Len(t)
      lo == (4 * (n - 1)) \div 5
      fr == (4 * (n - 1)) % 5
      hi == IF lo + 1 < n THEN lo + 1 ELSE lo
  IN  5 * Kth(t, lo + 1) + fr * (Kth(t, hi + 1) - Kth(t, lo + 1))

\* salient_mask of the PTQ1.61 loop body: abs_weights >= threshold.
Salient(weights) ==
  LET abs_weights == [i \in 1..Len(weights) |-> Abs(weights[i])]
  IN  { i \in 1..Len(weights) : 5 * abs_weights[i] >= Quantile80x5(abs_weights) }

\* The entries at the positions of a mask, in order.
Masked(weights, mask) ==
  LET idx == SelectSeq([i \in 1..Len(weights) |-> i], LAMBDA i : i \in mask)
  IN  [j \in 1..Len(idx) |-> weights[idx[j]]]

\* Position of i among the positions of a mask.
Rank(mask, i) == Cardinality({ j \in mask : j <= i })

\* The PTQ1.61 loop body: 4-bit _quantize_tensor over the salient weights with
\* their own min and max, the two-level binarization over the others.
ptq1_61(weights) ==
  LET salient_mask == Salient(weights)
      non_salient_mask == (1..Len(weights)) \ salient_mask
      salient_weights == Masked(weights, salient_mask)
      non_salient_weights == Masked(weights, non_salient_mask)
      salient_quantized ==
        _quantize_tensor(salient_weights, 4, Min(salient_weights), Max(salient_weights))
      binary_weights == onebit(non_salient_weights)
  IN  [i \in 1..Len(weights) |->
         IF i \in salient_mask THEN salient_quantized[Rank(salient_mask, i)]
         ELSE binary_weights[Rank(non_salient_mask, i)]]

-----------------------------------------------------------------------------
(* Direct calls of the generator's queries and of the tensor operators.    *)

\* The names a caller asks get_level_info for.
LevelNames == RequestedLevels \cup {"LIGHT", ""}

Call(op, arg, result, raised) ==
  [op |-> op, arg |-> arg, result |-> result, raised |-> raised]

\* A lookup that answers an unknown name with the first level's recipe.
get_level_info_lenient(levels, level_name) ==
  IF level_name \in DOMAIN levels
  THEN Call("get_level_info", level_name, levels[level_name], "none")
  ELSE Call("get_level_info", level_name, levels[Levels[1]], "none")

\* get_level_info: the table's entry itself, or ValueError.
get_level_info(levels, level_name) ==
  IF level_name \in DOMAIN levels
  THEN Call("get_level_info", level_name, levels[level_name], "none")
  ELSE Call("get_level_info", level_name, <<>>, "ValueError")

\* list_levels: list(self.compression_levels.keys()), in insertion order.
list_levels(levels) ==
  Call("list_levels", <<>>, SelectSeq(Levels, LAMBDA n : n \in DOMAIN levels), "none")

GetLevelInfo(level_name) ==
  /\ ret = NoCall
  /\ ret' = get_level_info(self_compression_levels, level_name)
  /\ UNCHANGED self_compression_levels
  /\ UNCHANGED core
  /\ UNCHANGED accounts

ListLevels ==
  /\ ret = NoCall
  /\ ret' = list_levels(self_compression_levels)
  /\ UNCHANGED self_compression_levels
  /\ UNCHANGED core
  /\ UNCHANGED accounts

\* The onebit loop body on one layer's weights.
OnebitLayer(weights) ==
  /\ ret = NoCall
  /\ ret' = Call("onebit", weights, onebit(weights), "none")
  /\ UNCHANGED self_compression_levels
  /\ UNCHANGED core
  /\ UNCHANGED accounts

\* The PTQ1.61 loop body on one layer's weights.
Ptq161Layer(weights) ==
  /\ ret = NoCall
  /\ ret' = Call("ptq1_61", weights, ptq1_61(weights), "none")
  /\ UNCHANGED self_compression_levels
  /\ UNCHANGED core
  /\ UNCHANGED accounts

\* _quantize_tensor(tensor, bits): min_val and max_val default to the
\* tensor's own.
QuantizeTensor(tensor, bits) ==
  /\ ret = NoCall
  /\ ret' = Call("_quantize_tensor", [tensor |-> tensor, bits |-> bits],
                 _quantize_tensor(tensor, bits, Min(tensor), Max(tensor)), "none")
  /\ UNCHANGED self_compression_levels
  /\ UNCHANGED core
  /\ UNCHANGED accounts

\* The rank_ratio values of the level table, the default 0.5 and 1.0, in
\* percent.
RankRatios == {10, 15, 25, 40, 50, 60, 100}

\* The shapes of the weight matrices a layer can have.
Shapes == (1..MaxDim) \X (1..MaxDim)

\* The rank the CALR loop body computes for one layer.
CalrRankOfLayer(shape, rank_ratio) ==
  /\ ret = NoCall
  /\ ret' = Call("calr_rank", [shape |-> shape, rank_ratio |-> rank_ratio],
                 CalrRank(shape, rank_ratio), "none")
  /\ UNCHANGED self_compression_levels
  /\ UNCHANGED core
  /\ UNCHANGED accounts

-----------------------------------------------------------------------------
(* UserManager: the JSON-backed accounts, without a cloud store            *)
(* (CloudStorage.db_client is None unless AWS is configured).              *)

\* register_user keys the new record by secrets.token_hex(16), one per
\* email: the model takes the email for the user id.
Emails == {"a", "b"}
\* The user ids callers pass: the registered ones, and one no one registered.
UserIds == Emails \cup {"ghost"}
\* secrets.token_urlsafe(16), in the order create_coupon hands them out.
Codes == <<"c1", "c2">>
CouponCodes == { Codes[i] : i \in 1..Len(Codes) } \cup {"nope"}

NoTrials == [x \in {} |-> 0]
NewUser == [credits |-> 100, tier |-> "free", trial_usage |-> NoTrials, credit_log |-> <<>>]

\* What a method leaves in self.users, whether it called _save_users, and
\* what it returned.
Out(store, saved, result) == [store |-> store, saved |-> saved, result |-> result]

register_user(store, email) ==
  IF email \in DOMAIN store.users THEN Out(store, FALSE, "None")
  ELSE Out([store EXCEPT !.users = (email :> NewUser) @@ @], TRUE, email)

add_credits(store, user_id, credits, reason) ==
  IF user_id \notin DOMAIN store.users THEN Out(store, FALSE, FALSE)
  ELSE Out([store EXCEPT
              !.users[user_id].credits = @ + credits,
              !.users[user_id].credit_log = Append(@, [amount |-> credits, reason |-> reason])],
           TRUE, TRUE)

deduct_credits(store, user_id, credits, reason) ==
  IF user_id \notin DOMAIN store.users THEN Out(store, FALSE, FALSE)
  ELSE IF store.users[user_id].credits < credits THEN Out(store, FALSE, FALSE)
  ELSE Out([store EXCEPT
              !.users[user_id].credits = @ - credits,
              !.users[user_id].credit_log = Append(@, [amount |-> 0 - credits, reason |-> reason])],
           TRUE, TRUE)

\* level_costs.get(compression_level, 0), the same table in
\* check_compression_access and in _deduct_user_credits.
level_costs(compression_level) ==
  CASE compression_level = "light" -> 0
    [] compression_level = "medium" -> 0
    [] compression_level = "heavy" -> 10
    [] compression_level = "extreme" -> 25
    [] compression_level = "ultra" -> 50
    [] compression_level = "nano" -> 100
    [] compression_level = "atomic" -> 200
    [] compression_level = "custom" -> 75
    [] OTHER -> 0

_get_trials_count(store, user_id, compression_level) ==
  IF user_id \notin DOMAIN store.users THEN 0
  ELSE Get(store.users[user_id].trial_usage, compression_level, 0)

increment_trial_usage(store, user_id, compression_level) ==
  IF user_id \notin DOMAIN store.users THEN Out(store, FALSE, "None")
  ELSE Out([store EXCEPT !.users[user_id].trial_usage =
              (compression_level :> (Get(@, compression_level, 0) + 1)) @@ @],
           TRUE, "None")

check_compression_access(store, user_id, compression_level) ==
  IF user_id \notin DOMAIN store.users THEN FALSE
  ELSE LET user_data == store.users[user_id]
           cost == level_costs(compression_level)
       IN  IF user_data.tier = "free" /\ compression_level \notin {"light", "medium"}
           THEN IF _get_trials_count(store, user_id, compression_level) >= 2
                THEN user_data.credits >= cost
                ELSE TRUE
           ELSE user_data.credits >= cost

\* The code create_coupon draws: one not handed out before.
FreshCodes(store) == { i \in 1..Len(Codes) : Codes[i] \notin DOMAIN store.coupons }

create_coupon(store, coupon_code, credits, admin_key) ==
  IF admin_key # "nanoquant_admin_secret" THEN Out(store, FALSE, "None")
  ELSE Out([store EXCEPT !.coupons =
              (coupon_code :> [credits |-> credits, used_by |-> "None"]) @@ @],
           TRUE, coupon_code)

\* A redeem_coupon that never looks at used_by.
redeem_coupon_reusable(store, user_id, coupon_code, past) ==
  IF user_id \notin DOMAIN store.users THEN Out(store, FALSE, FALSE)
  ELSE IF coupon_code \notin DOMAIN store.coupons THEN Out(store, FALSE, FALSE)
  ELSE IF coupon_code \in past THEN Out(store, FALSE, FALSE)
  ELSE LET added == add_credits(store, user_id, store.coupons[coupon_code].credits,
                                <<"coupon", coupon_code>>)
       IN  Out([added.store EXCEPT !.coupons[coupon_code].used_by = user_id], TRUE, TRUE)

\* redeem_coupon; past holds the coupons with datetime.now() > expires_at.
redeem_coupon(store, user_id, coupon_code, past) ==
  IF user_id \notin DOMAIN store.users THEN Out(store, FALSE, FALSE)
  ELSE IF coupon_code \notin DOMAIN store.coupons THEN Out(store, FALSE, FALSE)
  ELSE IF coupon_code \in past THEN Out(store, FALSE, FALSE)
  ELSE IF store.coupons[coupon_code].used_by # "None" THEN Out(store, FALSE, FALSE)
  ELSE LET added == add_credits(store, user_id, store.coupons[coupon_code].credits,
                                <<"coupon", coupon_code>>)
       IN  Out([added.store EXCEPT !.coupons[coupon_code].used_by = user_id], TRUE, TRUE)

\* CompressionPipeline._deduct_user_credits on the pipeline's UserManager.
_deduct_user_credits(store, user_id, compression_level) ==
  LET cost == level_costs(compression_level)
  IN  IF cost > 0
      THEN IF /\ user_id \in DOMAIN store.users
              /\ store.users[user_id].tier = "free"
              /\ _get_trials_count(store, user_id, compression_level) < 2
           THEN [increment_trial_usage(store, user_id, compression_level) EXCEPT !.result = TRUE]
           ELSE deduct_credits(store, user_id, cost, <<"compression", compression_level>>)
      ELSE Out(store, FALSE, TRUE)

\* A store a running installation holds: "a" registered, both free trials of
\* heavy used, "b" registered, one coupon of 50 credits created.
SeasonedStore ==
  [ users |-> ("a" :> [NewUser EXCEPT !.trial_usage = ("heavy" :> 2)]) @@ ("b" :> NewUser),
    coupons |-> ("c1" :> [credits |-> 50, used_by |-> "None"]) ]

\* The file the module-level UserManager is constructed on.
InitialStores == {EmptyStore, SeasonedStore}

AccountsInit ==
  /\ InitRun
  /\ db \in InitialStores
  /\ um = db
  /\ run = NoRun
  /\ expired = {}
  /\ ncalls = 0

\* One request is handled at a time: the handlers are synchronous.
InProgress == {"check", "ingest", "generate", "package", "deduct"}
CanCall == run.pc \notin InProgress /\ ncalls < MaxCalls

\* A method called on the module-level UserManager.
Called(op, arg, out) ==
  /\ CanCall
  /\ ncalls' = ncalls + 1
  /\ um' = out.store
  /\ db' = IF out.saved THEN out.store ELSE db
  /\ ret' = Call(op, arg, out.result, "none")
  /\ UNCHANGED <<run, expired>>
  /\ UNCHANGED self_compression_levels
  /\ UNCHANGED core

CreditAmounts == {0, 50}
DebitAmounts == {30, 200}
CouponCredits == {50, 0 - 150}

RegisterUser(email) ==
  Called("register_user", email, register_user(um, email))

AddCredits(user_id, credits) ==
  Called("add_credits", [user_id |-> user_id, credits |-> credits],
         add_credits(um, user_id, credits, <<"purchase", "none">>))

DeductCredits(user_id, credits) ==
  Called("deduct_credits", [user_id |-> user_id, credits |-> credits],
         deduct_credits(um, user_id, credits, <<"compression", "none">>))

CreateCoupon(credits) ==
  /\ FreshCodes(um) # {}
  /\ LET coupon_code == Codes[CHOOSE i \in FreshCodes(um) : \A j \in FreshCodes(um) : i <= j]
     IN  Called("create_coupon", credits,
                create_coupon(um, coupon_code, credits, "nanoquant_admin_secret"))

RedeemCoupon(user_id, coupon_code) ==
  Called("redeem_coupon", [user_id |-> user_id, coupon_code |-> coupon_code],
         redeem_coupon(um, user_id, coupon_code, expired))

\* Thirty days after its creation a coupon's expires_at is in the past.
CouponExpires(coupon_code) ==
  /\ run.pc \notin InProgress
  /\ coupon_code \in DOMAIN um.coupons
  /\ coupon_code \notin expired
  /\ expired' = expired \cup {coupon_code}
  /\ UNCHANGED <<db, um, run, ncalls>>
  /\ UNCHANGED queries
  /\ UNCHANGED core

-----------------------------------------------------------------------------
(* process_model / process_custom_model with a user_id.                    *)

\* compression_level and whether a custom_config came with the request.
Requests ==
  { <<"light", FALSE>>, <<"heavy", FALSE>>, <<"atomic", FALSE>>,
    <<"bogus", FALSE>>, <<"medium", TRUE>> }
Callers == {"a", "ghost"}
valid_levels == {"light", "medium", "heavy", "extreme", "ultra", "nano", "atomic"}

\* The level process_model charges, "custom" in process_custom_model.
ChargedLevel == IF run.custom THEN "custom" ELSE run.level

\* CompressionPipeline(): __init__ builds a UserManager of its own, which
\* loads the file as it is then.
NewPipeline(via, user_id, level, custom) ==
  [ pc |-> "check", via |-> via, user_id |-> user_id, level |-> level,
    custom |-> custom, um |-> db, loaded |-> db, charged |-> 0 ]

Refused(status, user_id, level, custom) ==
  [NoRun EXCEPT !.pc = status, !.via = "api", !.user_id = user_id,
                !.level = level, !.custom = custom]

\* POST /compression/start up to the call of the pipeline.
ApiCompress(user_id, level, custom) ==
  /\ CanCall
  /\ ncalls' = ncalls + 1
  /\ run' = IF level \notin valid_levels THEN Refused("http_400", user_id, level, custom)
            ELSE IF ~check_compression_access(um, user_id, level)
            THEN Refused("http_403", user_id, level, custom)
            ELSE NewPipeline("api", user_id, level, custom)
  /\ ret' = Call("compress_model",
                 [user_id |-> user_id, level |-> level, custom |-> custom], <<>>, "none")
  /\ UNCHANGED <<db, um, expired>>
  /\ UNCHANGED self_compression_levels
  /\ UNCHANGED core

\* process_model or process_custom_model called on a new pipeline.
ProcessModelFor(user_id, level, custom) ==
  /\ CanCall
  /\ ncalls' = ncalls + 1
  /\ run' = NewPipeline("direct", user_id, level, custom)
  /\ ret' = Call("process_model",
                 [user_id |-> user_id, level |-> level, custom |-> custom], <<>>, "none")
  /\ UNCHANGED <<db, um, expired>>
  /\ UNCHANGED self_compression_levels
  /\ UNCHANGED core

\* A process_model that charges before it starts work.
AccessCheck_charges_first ==
  /\ run.pc = "check"
  /\ LET out == _deduct_user_credits(run.um, run.user_id, ChargedLevel)
     IN  /\ run' = [run EXCEPT !.pc = "ingest", !.um = out.store]
         /\ db' = IF out.saved THEN out.store ELSE db
  /\ UNCHANGED <<um, expired, ncalls>>
  /\ UNCHANGED queries
  /\ UNCHANGED core

\* Lines 40-41 (145-146): PermissionError unless the pipeline's UserManager
\* grants access.
AccessCheck ==
  /\ run.pc = "check"
  /\ run' = [run EXCEPT !.pc =
               IF check_compression_access(run.um, run.user_id, ChargedLevel)
               THEN "ingest" ELSE "raised"]
  /\ UNCHANGED <<db, um, expired, ncalls>>
  /\ UNCHANGED queries
  /\ UNCHANGED core

\* Line 45 (150): ingest_model returns or raises.
Ingest ==
  /\ run.pc = "ingest"
  /\ \E pc \in {"generate", "raised"} : run' = [run EXCEPT !.pc = pc]
  /\ UNCHANGED <<db, um, expired, ncalls>>
  /\ UNCHANGED queries
  /\ UNCHANGED core

\* Line 51 (157-159): generate_nanoquants / generate_custom_nanoquant
\* returns or raises.
Generate ==
  /\ run.pc = "generate"
  /\ \E pc \in {"package", "raised"} : run' = [run EXCEPT !.pc = pc]
  /\ UNCHANGED <<db, um, expired, ncalls>>
  /\ UNCHANGED queries
  /\ UNCHANGED core

\* Lines 83-119 (178-197): the Ollama step, whose failures are logged.
Package ==
  /\ run.pc = "package"
  /\ run' = [run EXCEPT !.pc = "deduct"]
  /\ UNCHANGED <<db, um, expired, ncalls>>
  /\ UNCHANGED queries
  /\ UNCHANGED core

\* Lines 121-131 (199-208): _deduct_user_credits, then the result.
Deduct ==
  /\ run.pc = "deduct"
  /\ LET out == _deduct_user_credits(run.um, run.user_id, ChargedLevel)
         before == run.um.users[run.user_id].credits
         after == out.store.users[run.user_id].credits
     IN  /\ run' = [run EXCEPT !.pc = "returned", !.um = out.store,
                               !.charged = before - after]
         /\ db' = IF out.saved THEN out.store ELSE db
  /\ UNCHANGED <<um, expired, ncalls>>
  /\ UNCHANGED queries
  /\ UNCHANGED core

-----------------------------------------------------------------------------
Next ==
  \/ GenerateNanoquants
  \/ \E c \in CustomRecipes : GenerateCustomNanoquant(c)
  \/ \E level \in RequestedLevels : ProcessModel(level)
  \/ CompressEnter
  \/ SkipStage
  \/ SuperWeights
  \/ Quantization
  \/ Pruning
  \/ Decomposition
  \/ Lora
  \/ CompressReturn
  \/ SaveModel
  \/ SaveModelMakedirsFails
  \/ OllamaStep
  \/ PackageForOllama
  \/ ProcessModelReturn

Spec == Init /\ [][Next]_vars

\* The queries and the tensor operators called directly.
DirectNext ==
  \/ \E level_name \in LevelNames : GetLevelInfo(level_name)
  \/ ListLevels
  \/ \E weights \in Tensors : OnebitLayer(weights)
  \/ \E weights \in Tensors : Ptq161Layer(weights)
  \/ \E tensor \in Tensors, bits \in Bits : QuantizeTensor(tensor, bits)
  \/ \E shape \in Shapes, rank_ratio \in RankRatios : CalrRankOfLayer(shape, rank_ratio)

DirectCalls == Init /\ [][DirectNext]_vars

\* The accounts: calls on the module-level UserManager, and compressions
\* run for a user.
AccountsNext ==
  \/ \E email \in Emails : RegisterUser(email)
  \/ \E user_id \in Callers, credits \in CreditAmounts : AddCredits(user_id, credits)
  \/ \E user_id \in Callers, credits \in DebitAmounts : DeductCredits(user_id, credits)
  \/ \E credits \in CouponCredits : CreateCoupon(credits)
  \/ \E user_id \in UserIds, coupon_code \in CouponCodes : RedeemCoupon(user_id, coupon_code)
  \/ \E coupon_code \in CouponCodes : CouponExpires(coupon_code)
  \/ \E user_id \in Callers, r \in Requests : ApiCompress(user_id, r[1], r[2])
  \/ \E user_id \in Callers, r \in Requests : ProcessModelFor(user_id, r[1], r[2])
  \/ AccessCheck
  \/ Ingest
  \/ Generate
  \/ Package
  \/ Deduct

Accounts == AccountsInit /\ [][AccountsNext]_vars

-----------------------------------------------------------------------------
(* Properties.                                                             *)

IsPrefix(a, b) == Len(a) <= Len(b) /\ \A i \in 1..Len(a) : a[i] = b[i]

Count(seq, x) == Cardinality({ i \in 1..Len(seq) : seq[i] = x })

InCall == eng.pc # "none"
CallReturned == eng.pc \in {"return", "returned"}

\* C1: in generate_nanoquants every level is compressed from the original
\* ingested weights: the weights handed to compress_model for a level are
\* those of the model as ingested, whatever levels were compressed before.
C1_EveryLevelFromOriginalWeights ==
  (gen.op = "all" /\ InCall) => eng.handed = OriginalWeights

\* C2: when compress_model throws for one level, generate_nanoquants does not
\* raise, and on return it holds an artifact for every other level.
C2_ThrowingLevelDoesNotAbortBatch ==
  (gen.op = "all" /\ eng.raised_in # "none") =>
     /\ gen.pc # "raised"
     /\ gen.pc = "done" =>
          \A i \in 1..Len(Levels) :
             (Levels[i] # gen.calls[Len(gen.calls)]) =>
                \E j \in 1..Len(gen.generated) : gen.generated[j].level = Levels[i]

\* The stages a recipe asks for, in the documented order.
DocumentedOrder ==
  <<"preserve_super_weights", "quantization", "pruning", "decomposition", "lora">>

Present(config, s) ==
  IF s = "preserve_super_weights"
  THEN s \in DOMAIN config /\ config[s] = TRUE
  ELSE s \in DOMAIN config

PresentStages(config) == SelectSeq(DocumentedOrder, LAMBDA s : Present(config, s))

\* C3: compress_model runs the enabled stages in the order super-weight
\* identification, quantization, pruning, decomposition, LoRA: at every
\* moment of a call the stages run so far are an initial part of the
\* recipe's present stages in that order (so an absent stage never runs, no
\* stage runs twice or out of order), and a call that returns has run all
\* of them.
C3_StagesInFixedOrder ==
  InCall =>
    /\ IsPrefix(eng.ran, PresentStages(eng.config))
    /\ CallReturned => eng.ran = PresentStages(eng.config)

C3_Witness ==
  /\ gen.op = "custom" /\ eng.pc = "returned"
  /\ "quantization" \notin DOMAIN eng.config
  /\ eng.ran = <<"preserve_super_weights", "pruning", "lora">>

\* A stage of the running call failed: it raised, one of its layer bodies
\* threw, or the adapter could not be attached.
StageFailed ==
  \/ eng.raised_in # "none"
  \/ eng.layer_errors # {}
  \/ Count(eng.log, "lora_attach_error") > 0

\* C4: a failing stage neither rolls back earlier stages nor aborts later
\* ones: after a stage failed the call goes on to the later present stages
\* and returns.
C4_FailedStageNeverAborts ==
  (InCall /\ StageFailed) => eng.pc # "raised"

LastStage == eng.ran[Len(eng.ran)]

\* C5: an operator that throws on one linear layer during quantization,
\* pruning or decomposition is caught for that layer only: the layer keeps
\* the weight it had before the stage, and the stage is not left early.
C5_LayerFailureIsolated ==
  (InCall /\ eng.ran # <<>> /\ LastStage \in {"quantization", "pruning", "decomposition"}) =>
     \A l \in eng.layer_errors :
        /\ CurObj.w[l] = eng.before[l]
        /\ eng.pc # "raised"

\* The model save of a level failed: save_pretrained raised, so the directory
\* holds the fallback state dict or no model at all.
SaveFailed(level_name) ==
  /\ fs[ModelName(level_name)].exists
  /\ fs[ModelName(level_name)].model # "pretrained"

RegisteredQuantization ==
  {"4bit", "8bit", "mixed", "quip", "aqlm", "onebit", "ptq1_61", "ultrasketch"}
RegisteredPruning == {"unstructured", "structured", "magnitude", "sparsegpt", "wanda"}
RegisteredDecomposition == {"low_rank", "calr"}

UnknownKey(config, stage, registered) ==
  /\ stage \in DOMAIN config
  /\ "type" \in DOMAIN config[stage]
  /\ config[stage].type \notin registered

\* The method the running call dispatched to for a stage, if it got there.
Dispatched(stage, method) ==
  \E i \in 1..Len(eng.methods) : eng.methods[i] = <<stage, method>>

Reached(stage) == \E i \in 1..Len(eng.ran) : eng.ran[i] = stage

\* C7: an unregistered type key resolves to the 8bit quantization, the
\* unstructured pruning and the low_rank decomposition strategy; the lookup
\* itself never raises, so a stage that is reached always dispatches, and
\* only to that one method.
C7_UnknownKeyResolvesToDefault ==
  InCall =>
    /\ (Reached("quantization") /\ UnknownKey(eng.config, "quantization", RegisteredQuantization))
          => Dispatched("quantization", "_apply_8bit_quantization")
    /\ (Reached("pruning") /\ UnknownKey(eng.config, "pruning", RegisteredPruning))
          => Dispatched("pruning", "_apply_unstructured_pruning")
    /\ (Reached("decomposition") /\ UnknownKey(eng.config, "decomposition", RegisteredDecomposition))
          => Dispatched("decomposition", "_apply_low_rank_decomposition")
    /\ \A i, j \in 1..Len(eng.methods) :
          eng.methods[i][1] = eng.methods[j][1] => i = j

C7_Witness ==
  /\ eng.pc = "returned"
  /\ UnknownKey(eng.config, "quantization", RegisteredQuantization)
  /\ UnknownKey(eng.config, "pruning", RegisteredPruning)
  /\ UnknownKey(eng.config, "decomposition", RegisteredDecomposition)
  /\ Len(eng.methods) = 3

\* C8: a compress_model call with an unknown quantization key logs the
\* fallback warning exactly once (when the quantization stage dispatches),
\* and a call with a registered key, or with no type key, logs none.
C8_FallbackWarnedOncePerCall ==
  InCall =>
    LET n == Count(eng.log, "quantization_fallback")
        unknown == UnknownKey(eng.config, "quantization", RegisteredQuantization)
    IN  /\ n = IF unknown /\ Reached("quantization") THEN 1 ELSE 0
        /\ (CallReturned /\ unknown) => n = 1

C8_Witness ==
  /\ eng.pc = "returned"
  /\ UnknownKey(eng.config, "quantization", RegisteredQuantization)
  /\ eng.config.quantization.type = "foo"
  /\ Count(eng.log, "quantization_fallback") = 1

DeclaredOrder == <<"light", "medium", "heavy", "extreme", "ultra", "nano", "atomic">>
DeclaredRatio == <<300, 150, 80, 40, 20, 10, 5>>

\* C9: generate_nanoquants calls compress_model once per level in the
\* declared order light .. atomic (the calls made so far are always an
\* initial part of that order), and when it returns it holds one artifact
\* per level in the same order, each with that level's recipe as config and
\* that level's declared compression ratio.
C9_OneCallPerLevelInOrder ==
  gen.op = "all" =>
    /\ IsPrefix(gen.calls, DeclaredOrder)
    /\ Len(gen.generated) <= Len(gen.calls)
    /\ \A i \in 1..Len(gen.generated) :
         /\ gen.generated[i].level = DeclaredOrder[i]
         /\ gen.generated[i].config = compression_levels[DeclaredOrder[i]]
         /\ gen.generated[i].compression_ratio = DeclaredRatio[i]
    /\ gen.pc = "done" =>
         /\ gen.calls = DeclaredOrder
         /\ Len(gen.generated) = Len(DeclaredOrder)

C9_Witness ==
  /\ gen.op = "all" /\ gen.pc = "done"
  /\ gen.generated[7].level = "atomic" /\ gen.generated[7].compression_ratio = 5

\* C10: a request for one compression level produces artifacts for that
\* level only: process_model for light returns exactly one artifact, for
\* light, with config.pruning.ratio 0.15 and an existing path.
C10_SingleLevelRequestYieldsOneArtifact ==
  pm.pc = "returned" =>
    /\ Len(pm.generated_models) = 1
    /\ pm.generated_models[1].level = pm.compression_level
    /\ fs[pm.generated_models[1].path].exists
    /\ pm.compression_level = "light" => pm.generated_models[1].config.pruning.ratio = 15

\* The level of the compress_model call that is running or has just returned.
CallLevel == gen.calls[Len(gen.calls)]

PruningRatio(name) == self_compression_levels[name].pruning.ratio
LoraRank(name) == self_compression_levels[name].lora.r
HasDecomposition(name) == "decomposition" \in DOMAIN self_compression_levels[name]
RankRatio(name) == self_compression_levels[name].decomposition.rank_ratio

\* C11: over the table in the order light .. atomic the pruning ratio never
\* decreases, the LoRA rank r never increases, the decomposition rank_ratio
\* never increases over the levels that define one, and the declared
\* compression ratio never increases; the artifacts generate_nanoquants
\* records carry ratios in that same non-increasing order.
C11_TableMonotone ==
  /\ \A i, j \in 1..Len(Levels) :
       i < j =>
         /\ PruningRatio(Levels[i]) <= PruningRatio(Levels[j])
         /\ LoraRank(Levels[i]) >= LoraRank(Levels[j])
         /\ (HasDecomposition(Levels[i]) /\ HasDecomposition(Levels[j]))
               => RankRatio(Levels[i]) >= RankRatio(Levels[j])
         /\ _estimate_compression_ratio(Levels[i]) >= _estimate_compression_ratio(Levels[j])
  /\ gen.op = "all" =>
       \A i, j \in 1..Len(gen.generated) :
         i < j =>
           /\ gen.generated[i].compression_ratio >= gen.generated[j].compression_ratio
           /\ gen.generated[i].config.pruning.ratio <= gen.generated[j].config.pruning.ratio
           /\ gen.generated[i].config.lora.r >= gen.generated[j].config.lora.r

C11_Witness ==
  /\ gen.op = "all" /\ Len(gen.generated) = 7
  /\ gen.generated[6].compression_ratio > gen.generated[7].compression_ratio
  /\ gen.generated[1].config.pruning.ratio < gen.generated[7].config.pruning.ratio

\* C12: preserve_super_weights is false or absent for light, medium and
\* heavy and true for extreme, ultra, nano and atomic: a compress_model call
\* of generate_nanoquants that returned has run the super-weight step exactly
\* when its level is extreme or above.
C12_SuperWeightsFromExtremeUp ==
  (gen.op = "all" /\ eng.pc = "returned") =>
     (Reached("preserve_super_weights")
        <=> CallLevel \in {"extreme", "ultra", "nano", "atomic"})

\* The parameter table of the documentation: quantization, pruning type and
\* ratio, decomposition type and rank_ratio, LoRA r, declared ratio.
ParameterTable ==
  << <<"light", "8bit", "wanda", 15, "none", 0, 64, 300>>,
     <<"medium", "8bit", "wanda", 30, "none", 0, 32, 150>>,
     <<"heavy", "4bit", "sparsegpt", 50, "low_rank", 60, 16, 80>>,
     <<"extreme", "quip", "sparsegpt", 70, "calr", 40, 8, 40>>,
     <<"ultra", "aqlm", "sparsegpt", 85, "calr", 25, 4, 20>>,
     <<"nano", "ptq1_61", "sparsegpt", 92, "calr", 15, 2, 10>>,
     <<"atomic", "ultrasketch", "sparsegpt", 95, "calr", 10, 1, 5>> >>

RecipeRow(name, config) ==
  << name, config.quantization.type, config.pruning.type, config.pruning.ratio,
     IF "decomposition" \in DOMAIN config THEN config.decomposition.type ELSE "none",
     IF "decomposition" \in DOMAIN config THEN config.decomposition.rank_ratio ELSE 0,
     config.lora.r, _estimate_compression_ratio(name) >>

\* C13: the table has the seven names light .. atomic and no others, each
\* with the recipe and declared ratio of the parameter table, and that is
\* the recipe every compress_model call of generate_nanoquants is handed.
C13_TableIsParameterTable ==
  /\ DOMAIN self_compression_levels = { ParameterTable[i][1] : i \in 1..Len(ParameterTable) }
  /\ Len(Levels) = Len(ParameterTable)
  /\ \A i \in 1..Len(Levels) :
       RecipeRow(Levels[i], self_compression_levels[Levels[i]]) = ParameterTable[i]
  /\ (gen.op = "all" /\ InCall) =>
       RecipeRow(CallLevel, eng.config) = ParameterTable[Len(gen.calls)]

C13_Witness ==
  /\ gen.op = "all" /\ eng.pc = "returned" /\ Len(gen.calls) = 7
  /\ eng.config.quantization.type = "ultrasketch"
  /\ eng.config.lora.r = 1

\* C14: get_level_info returns the table's recipe, with description,
\* quantization and pruning, for each of the seven names and raises
\* ValueError for every other name; list_levels returns the seven names;
\* neither call changes the table.
C14_LevelQueries ==
  /\ self_compression_levels = compression_levels
  /\ ret.op = "get_level_info" =>
       IF ret.arg \in {"light", "medium", "heavy", "extreme", "ultra", "nano", "atomic"}
       THEN /\ ret.raised = "none"
            /\ ret.result = compression_levels[ret.arg]
            /\ {"description", "quantization", "pruning"} \subseteq DOMAIN ret.result
       ELSE ret.raised = "ValueError"
  /\ ret.op = "list_levels" => (ret.raised = "none" /\ ret.result = DeclaredOrder)

C14_Witness ==
  /\ ret.op = "get_level_info" /\ ret.arg = "bogus" /\ ret.raised = "ValueError"

\* C15: process_model called with a compression_level that is not a level
\* name is refused: nothing is compressed, nothing is written and no result
\* is returned for it.
C15_BadLevelNameRefused ==
  (pm.pc # "idle" /\ pm.compression_level \notin DOMAIN self_compression_levels) =>
     /\ gen.calls = <<>>
     /\ \A p \in Paths : ~fs[p].exists
     /\ pm.pc # "returned"

LoraFailed ==
  /\ Reached("lora")
  /\ (eng.raised_in = "lora" \/ Count(eng.log, "lora_attach_error") > 0)

\* C16: a LoRA stage that fails, while building the adapter configuration
\* or while attaching it, logs the failure and lets compress_model return
\* normally.
C16_LoraFailureLoggedNotRaised ==
  (InCall /\ LoraFailed) =>
     /\ Count(eng.log, "lora_attach_error") = 1
     /\ eng.pc \in {"return", "returned"}

\* C17: the super-weight masks live for one compress_model call only: once
\* the call has returned its engine holds no mask.
C17_MasksDroppedAtReturn ==
  eng.pc = "returned" => (~eng.has_masks /\ eng.masks = {})

RatEq(a, b) == a.d # 0 /\ b.d # 0 /\ a.n * b.d = b.n * a.d

\* C19: onebit replaces every non-negative entry, zeros included, with the
\* mean of the originally non-negative entries and every negative entry with
\* the mean of the originally negative entries, an empty part giving 0.
C19_OnebitTwoLevelMeans ==
  ret.op = "onebit" =>
    LET non_negative == SelectSeq(ret.arg, LAMBDA x : x >= 0)
        negative == SelectSeq(ret.arg, LAMBDA x : x < 0)
    IN  \A i \in 1..Len(ret.arg) :
          IF ret.arg[i] >= 0
          THEN RatEq(ret.result[i], MeanOrZero(non_negative))
          ELSE RatEq(ret.result[i], MeanOrZero(negative))

\* C20: _quantize_tensor with min equal to max returns min at every entry,
\* for every bit width; so does the salient part of PTQ1.61 when all
\* salient weights are equal.
C20_DegenerateRangeReturnsMin ==
  /\ (ret.op = "_quantize_tensor" /\ Min(ret.arg.tensor) = Max(ret.arg.tensor)) =>
        \A i \in 1..Len(ret.arg.tensor) :
           RatEq(ret.result[i], Rat(Min(ret.arg.tensor), 1))
  /\ ret.op = "ptq1_61" =>
        LET salient_weights == Masked(ret.arg, Salient(ret.arg))
        IN  Min(salient_weights) = Max(salient_weights) =>
              \A i \in Salient(ret.arg) : RatEq(ret.result[i], Rat(ret.arg[i], 1))

C21_RankIsRounded ==
  ret.op = "calr_rank" =>
    LET shape == ret.arg.shape
        least == Least(shape[1], shape[2])
        rounded == Round(ret.arg.rank_ratio * least, 100)
    IN  /\ ret.result = (IF rounded < 1 THEN 1 ELSE rounded)
        /\ ret.result >= 1
        /\ ret.result <= least

\* C24: every artifact record generate_nanoquants and
\* generate_custom_nanoquant produce has the six fields name, level, path,
\* description, compression_ratio and config.
ArtifactFields == {"name", "level", "path", "description", "compression_ratio", "config"}
C24_ArtifactsHaveSixFields ==
  \A k \in 1..Len(gen.generated) : ArtifactFields \subseteq DOMAIN gen.generated[k]

\* C25: the levels run strictly one after the other: _save_model for a
\* level starts only after compress_model for that level has returned,
\* compress_model for the next level starts only after the save of this one
\* has finished, and no compress_model call starts while another is running.
C25_OneLevelAtATime ==
  [][ /\ Len(gen'.calls) = Len(gen.calls) + 1 =>
           /\ eng.pc \in {"none", "returned"}
           /\ Len(gen.generated) = Len(gen.calls)
      /\ (fs' # fs \/ Len(gen'.generated) > Len(gen.generated)) =>
           /\ eng.pc = "returned"
           /\ Len(gen.calls) = Len(gen.generated) + 1
           /\ gen.calls[Len(gen.calls)] = LevelName ]_vars

C25_Witness ==
  /\ gen.op = "all" /\ gen.pc = "compress"
  /\ Len(gen.calls) = 3 /\ Len(gen.generated) = 2
  /\ fs[ModelName(Levels[2])].exists

\* C26: preserve_super_weights has no effect on the weights: the layer
\* weights compress_model returns are those the recipe without the flag
\* gives on the same model, whether the flag is true, false or absent.
WithoutFlag(config) ==
  [k \in DOMAIN config \ {"preserve_super_weights"} |-> config[k]]

\* The weights the quantization, pruning and decomposition entries of a
\* recipe give when no layer throws; the flag is not consulted.
AfterQuantization(obj, config) ==
  IF "quantization" \notin DOMAIN config THEN obj
  ELSE LET method == _apply_quantization(config.quantization).method
       IN  IF method = "_apply_8bit_quantization" THEN QuantizedCopy(obj)
           ELSE IF method \in InPlaceQuantization
           THEN [obj EXCEPT !.w = InPlaceUntil(@, LinearLayers(obj), QuantTag(method), 0)]
           ELSE obj

AfterPruning(obj, config) ==
  IF "pruning" \notin DOMAIN config THEN obj
  ELSE [obj EXCEPT !.w = PerLayerTry(@, LinearLayers(obj),
          PruneTag(_apply_pruning(config.pruning).method, config.pruning), {})]

AfterDecomposition(obj, config) ==
  IF "decomposition" \notin DOMAIN config THEN obj
  ELSE IF _apply_decomposition(config.decomposition).method = "_apply_calr_decomposition"
  THEN [obj EXCEPT !.w = Calr(@, LinearLayers(obj), config.decomposition, {}, {})]
  ELSE obj

WeightsWithoutFlag(handed, config) ==
  LET model == [w |-> handed, linear |-> TRUE, peft |-> FALSE, live |-> TRUE]
      recipe == WithoutFlag(config)
  IN  AfterDecomposition(AfterPruning(AfterQuantization(model, recipe), recipe), recipe).w

C26_SuperWeightsFlagChangesNoWeight ==
  /\ (CallReturned /\ faults = 0) =>
        CurObj.w = WeightsWithoutFlag(eng.handed, eng.config)
  /\ (eng.pc = "quantization" /\ faults = 0) => CurObj.w = eng.handed

C26_Witness ==
  /\ CallReturned /\ faults = 0
  /\ Get(eng.config, "preserve_super_weights", FALSE) = TRUE
  /\ eng.has_masks
  /\ CurObj.w # eng.handed

\* C23: the level table is never mutated at runtime: whatever calls of
\* generate_nanoquants, generate_custom_nanoquant, compress_model and
\* process_model have run, every level's recipe is the one defined at
\* construction.
C23_TableNeverMutated == self_compression_levels = compression_levels

C23_Witness ==
  /\ gen.op = "all" /\ gen.pc = "done"
  /\ Len(gen.calls) = Len(Levels)
  /\ \A k \in 1..Len(Levels) : gen.generated[k].config = compression_levels[Levels[k]]

\* C22: a failure of the serving registration never invalidates the result:
\* when packaging or push fails or throws for a level, process_model still
\* returns every generated artifact, goes on to the remaining levels, and
\* ollama_tags holds exactly the tags whose push returned true.
Pushed(log, generated_models) ==
  LET F[k \in 0..Len(log)] ==
        IF k = 0 THEN <<>>
        ELSE IF log[k] = "pushed" THEN Append(F[k - 1], OllamaTag(generated_models[k].level))
        ELSE F[k - 1]
  IN  F[Len(log)]

C22_OllamaFailureKeepsResult ==
  /\ pm.pc \in {"package", "packaged", "returned", "raised"} =>
        pm.ollama_tags = Pushed(pm.ollama_log, pm.generated_models)
  /\ pm.pc = "raised" => pm.ollama_log = <<>> /\ gen.pc = "raised"
  /\ pm.pc = "returned" =>
        /\ pm.generated_models = gen.generated
        /\ Len(pm.generated_models) = Len(Levels)
        /\ (pm.push_to_ollama /\ pm.ollama_available) =>
              Len(pm.ollama_log) = Len(pm.generated_models)

C22_Witness ==
  /\ pm.pc = "returned"
  /\ \E k \in 1..(Len(pm.ollama_log) - 1) :
        pm.ollama_log[k] # "pushed" /\ pm.ollama_log[k + 1] = "pushed"
  /\ Len(pm.ollama_tags) = Len(Levels) - 1

\* C27: process_model / process_custom_model with a user_id touch that
\* user's balance, credit log and trial counters only after ingestion,
\* generation and packaging have finished: every earlier step leaves the file
\* and the pipeline's UserManager as loaded, and so does a call that raises.
C27_ChargedOnlyAtTheEnd ==
  [][ /\ run.pc \in {"check", "ingest", "generate", "package"} =>
           db' = db /\ run'.um = run.um
      /\ (run'.pc = "raised" /\ run.pc # "raised") =>
           db' = run'.loaded /\ run'.um = run'.loaded
      /\ (run.pc \in InProgress /\ (db' # db \/ run'.um # run.um)) =>
           run.pc = "deduct" /\ run'.pc = "returned" ]_vars

C27_Witness ==
  /\ run.pc = "returned"
  /\ run.charged > 0
  /\ db.users[run.user_id].credits = run.loaded.users[run.user_id].credits - run.charged

\* C28: the credit deduction of an API compression is never lost: once the
\* call has returned, the API's UserManager knows the deduction, and the
\* file keeps it whatever the API's UserManager writes later.
Logged(store, user_id, entry) ==
  /\ user_id \in DOMAIN store.users
  /\ \E k \in 1..Len(store.users[user_id].credit_log) :
        store.users[user_id].credit_log[k] = entry

C28_DeductionNeverLost ==
  (run.via = "api" /\ run.pc = "returned" /\ run.charged > 0) =>
    LET entry == [amount |-> 0 - run.charged, reason |-> <<"compression", ChargedLevel>>]
    IN  /\ Logged(um, run.user_id, entry)
        /\ Logged(db, run.user_id, entry)

\* C29: on one UserManager every balance stays >= 0 under register_user,
\* add_credits with non-negative amounts, deduct_credits and redeem_coupon;
\* a deduct_credits for more than the balance or for an unknown user returns
\* False and leaves balance and credit log unchanged.
C29_BalancesNeverNegative ==
  [][ /\ \A u \in DOMAIN um'.users : um'.users[u].credits >= 0
      /\ (ret'.op = "deduct_credits" /\ ncalls' > ncalls) =>
           ( ( \/ ret'.arg.user_id \notin DOMAIN um.users
               \/ um.users[ret'.arg.user_id].credits < ret'.arg.credits ) =>
             (ret'.result = FALSE /\ um' = um /\ db' = db) ) ]_vars

\* C30: a coupon pays out at most once: a redeem_coupon of a used coupon
\* returns False for every user and changes nothing, and so does one for an
\* unknown user, an unknown code or an expired coupon.
Payouts(store, coupon_code) ==
  UNION { { <<u, k>> : k \in { j \in 1..Len(store.users[u].credit_log) :
                                 store.users[u].credit_log[j].reason = <<"coupon", coupon_code>> } } :
          u \in DOMAIN store.users }

=============================================================================
